---- MODULE Spec2Model ----
(***************************************************************************)
(* Declaration ledger of macf-light: CBAM declarations, their import       *)
(* lines and the request handlers that mutate them.                        *)
(*                                                                         *)
(* Every request handler is a sequence of store accesses (one per await);  *)
(* each access is one step of the request slot that runs the handler.      *)
(* Spec lets MaxReqs handlers interleave their steps; SeqSpec admits one   *)
(* handler at a time, which then runs from its first to its last step      *)
(* without any other handler touching the store.                           *)
(*                                                                         *)
(* Units: quantity in 0.001 t, unitValue in 0.01 EUR/t, totalValue in      *)
(* 0.00001 EUR, carbonEmissions and carbonCertificates in 0.001 tCO2e.     *)
(***************************************************************************)
EXTENDS Integers, FiniteSets, Sequences, TLC

\* ----- bounds of the model -----
MaxDecls == 2
MaxImports == 2
MaxReqs == 2
MaxStarted == 4


\* ----- markers for absent values -----
Null == 0
Now == 1
Undef == -1
NoText == "undefined"
NoDate == [y |-> 0, m |-> 0, d |-> 0]

\* ----- reference data: products (no handler mutates them) -----
Products == [p1 |-> [isActive |-> TRUE], p2 |-> [isActive |-> FALSE]]
ProductIds == {"p1", "p2", "p3"}

\* ----- schema constants -----
QuantityMin == 1
UnitValueMin == 1
TotalValueMin == 1000
Tolerance == 1000
QuantityMax == 1000000000
UnitValueMax == 100000000
EmissionsMax == 1000000000
CertificatesMax == 1000000000
YearMin == 2023
CurrentYear == 2024

DeclarationStatuses == {"draft", "submitted", "validated", "rejected", "pending"}

ZeroSummary ==
  [totalImports |-> 0, totalQuantity |-> 0, totalValue |-> 0, totalEmissions |-> 0,
   totalCertificatesRequired |-> 0, totalCertificatesHeld |-> 0]

NoDecl ==
  [userId |-> "none", year |-> 0, quarter |-> 0, status |-> "none", summary |-> ZeroSummary,
   deadlineDate |-> NoDate, submittedAt |-> Null, validatedAt |-> Null, rejectedAt |-> Null,
   rejectionReason |-> NoText, notes |-> NoText]

NoImport ==
  [declarationId |-> 0, productId |-> "none", quantity |-> 0, unitValue |-> 0, totalValue |-> 0,
   carbonEmissions |-> 0, carbonCertificates |-> Undef, notes |-> NoText]

NoBody ==
  [year |-> 0, quarter |-> 0, notes |-> NoText, status |-> NoText, reason |-> NoText,
   productId |-> "none", quantity |-> Undef, unitValue |-> Undef, carbonEmissions |-> Undef,
   carbonCertificates |-> Undef, totalValue |-> Undef, quarterTenths |-> 0]

VARIABLES decls, imports, nextDeclId, nextImportId, req, maxInflight, started

vars == <<decls, imports, nextDeclId, nextImportId, req, maxInflight, started>>

Reqs == 1..MaxReqs

\* ----- store helpers -----
Put(f, k, v) == [x \in DOMAIN f \cup {k} |-> IF x = k THEN v ELSE f[x]]
Remove(f, S) == [x \in DOMAIN f \ S |-> f[x]]

RECURSIVE SumFn(_, _)
SumFn(f, S) ==
  IF S = {} THEN 0
  ELSE LET x == CHOOSE y \in S : TRUE IN f[x] + SumFn(f, S \ {x})

ImportsOf(ims, d) == {i \in DOMAIN ims : ims[i].declarationId = d}

\* mutants of canBeEdited: a submitted, or a validated, declaration stays editable
canBeEdited_SubmittedToo(doc) == doc.status \in {"draft", "rejected", "submitted"}

canBeEdited_ValidatedToo(doc) == doc.status \in {"draft", "rejected", "validated"}

\* ----- CbamDeclaration model methods -----
canBeEdited(doc) == doc.status = "draft" \/ doc.status = "rejected"

\* mutant of canBeSubmitted: the import count is not looked at
canBeSubmitted_AnyDraft(doc) == doc.status = "draft"

canBeSubmitted(doc) == doc.status = "draft" /\ doc.summary.totalImports > 0

\* mutant of calculateDeadline: the last day of February, leap years included
calculateDeadline_LeapDay(year, quarter) ==
  IF quarter = 1 THEN [y |-> year, m |-> 5, d |-> 31]
  ELSE IF quarter = 2 THEN [y |-> year, m |-> 8, d |-> 31]
  ELSE IF quarter = 3 THEN [y |-> year, m |-> 11, d |-> 30]
  ELSE IF quarter = 4
    THEN [y |-> year + 1, m |-> 2, d |-> IF (year + 1) % 4 = 0 THEN 29 ELSE 28]
  ELSE NoDate

\* deadlines[quarter - 1] of the four dates new Date(year, 4, 31), ...
calculateDeadline(year, quarter) ==
  IF quarter = 1 THEN [y |-> year, m |-> 5, d |-> 31]
  ELSE IF quarter = 2 THEN [y |-> year, m |-> 8, d |-> 31]
  ELSE IF quarter = 3 THEN [y |-> year, m |-> 11, d |-> 30]
  ELSE IF quarter = 4 THEN [y |-> year + 1, m |-> 2, d |-> 28]
  ELSE NoDate

\* date > now of two Dates: a deadline is a midnight, so it is later than an
\* instant exactly when its day is later than the day of the instant
Later(date, now) ==
  \/ date.y > now.y
  \/ date.y = now.y /\ date.m > now.m
  \/ date.y = now.y /\ date.m = now.m /\ date.d > now.d

\* lib/utils getNextCbamDeadline, with the current date as a parameter:
\* deadlines.find(date => date > now), else January 31 of the next year
getNextCbamDeadline(now) ==
  LET year == now.y
      deadlines == << [y |-> year, m |-> 1, d |-> 31], [y |-> year, m |-> 4, d |-> 30],
                      [y |-> year, m |-> 7, d |-> 31], [y |-> year, m |-> 10, d |-> 31] >>
      found == {k \in 1..4 : Later(deadlines[k], now)}
  IN IF found # {}
     THEN deadlines[CHOOSE k \in found : \A j \in found : k <= j]
     ELSE [y |-> year + 1, m |-> 1, d |-> 31]

\* mutant of ComputeSummary: certificates required summed from per-line ceilings
ComputeSummary_CeilingPerLine(ims, d) ==
  LET S == ImportsOf(ims, d) IN
  [totalImports |-> Cardinality(S),
   totalQuantity |-> SumFn([i \in S |-> ims[i].quantity], S),
   totalValue |-> SumFn([i \in S |-> ims[i].totalValue], S),
   totalEmissions |-> SumFn([i \in S |-> ims[i].carbonEmissions], S),
   totalCertificatesRequired |->
     SumFn([i \in S |-> ((ims[i].carbonEmissions + 999) \div 1000) * 1000], S),
   totalCertificatesHeld |->
     SumFn([i \in S |-> IF ims[i].carbonCertificates = Undef THEN 0
                        ELSE ims[i].carbonCertificates], S)]

\* mutant of ComputeSummary: totalValue summed from the wrong field
ComputeSummary_QuantityAsValue(ims, d) ==
  LET S == ImportsOf(ims, d) IN
  [totalImports |-> Cardinality(S),
   totalQuantity |-> SumFn([i \in S |-> ims[i].quantity], S),
   totalValue |-> SumFn([i \in S |-> ims[i].quantity], S),
   totalEmissions |-> SumFn([i \in S |-> ims[i].carbonEmissions], S),
   totalCertificatesRequired |-> SumFn([i \in S |-> ims[i].carbonEmissions], S),
   totalCertificatesHeld |->
     SumFn([i \in S |-> IF ims[i].carbonCertificates = Undef THEN 0
                        ELSE ims[i].carbonCertificates], S)]

\* the summary updateSummary assigns, from the lines found for declaration d
ComputeSummary(ims, d) ==
  LET S == ImportsOf(ims, d) IN
  [totalImports |-> Cardinality(S),
   totalQuantity |-> SumFn([i \in S |-> ims[i].quantity], S),
   totalValue |-> SumFn([i \in S |-> ims[i].totalValue], S),
   totalEmissions |-> SumFn([i \in S |-> ims[i].carbonEmissions], S),
   totalCertificatesRequired |-> SumFn([i \in S |-> ims[i].carbonEmissions], S),
   totalCertificatesHeld |->
     SumFn([i \in S |-> IF ims[i].carbonCertificates = Undef THEN 0
                        ELSE ims[i].carbonCertificates], S)]

\* mutant of MergeModified: the save does not write submittedAt
MergeModified_DropsSubmittedAt(stored, doc, modified) ==
  [f \in DOMAIN stored |-> IF f \in modified \ {"submittedAt"} THEN doc[f] ELSE stored[f]]

\* Document.save() of a loaded document: writes the modified paths only
MergeModified(stored, doc, modified) ==
  [f \in DOMAIN stored |-> IF f \in modified THEN doc[f] ELSE stored[f]]


\* ----- request slots -----
IdleReq ==
  [op |-> "none", pc |-> "idle", user |-> "none", declId |-> 0, importId |-> 0,
   body |-> NoBody, doc |-> NoDecl, modified |-> {}, hookDoc |-> NoDecl,
   hookModified |-> {}, item |-> NoImport, itemModified |-> {}, result |-> "none",
   pre |-> [decls |-> <<>>, imports |-> <<>>], now |-> NoDate, nextDeadline |-> NoDate]

InFlight == {r \in Reqs : req[r].pc # "idle"}

\* a handler starts in the lowest free slot, while fewer than maxInflight are
\* running or waiting for their response to be collected
CanStart(r) ==
  /\ req[r].pc = "idle"
  /\ maxInflight > 1 => started < MaxStarted
  /\ Cardinality(InFlight) < maxInflight
  /\ \A q \in Reqs : q < r => req[q].pc # "idle"

\* interleaved runs are cut off after MaxStarted requests
CountStart == started' = IF maxInflight > 1 THEN started + 1 ELSE started

NewReq(op, user, declId, importId, body) ==
  [IdleReq EXCEPT !.op = op, !.user = user, !.declId = declId, !.importId = importId,
                  !.body = body,
                  !.pre = IF maxInflight = 1 THEN [decls |-> decls, imports |-> imports]
                          ELSE IdleReq.pre]

\* the response is sent: the handler's documents are dropped
Respond(rq, result) ==
  [rq EXCEPT !.pc = "done", !.result = result, !.doc = NoDecl, !.modified = {},
             !.hookDoc = NoDecl, !.hookModified = {}, !.item = NoImport,
             !.itemModified = {}]

\* the response has been delivered; the slot is free again
Release(r) ==
  /\ req[r].pc = "done"
  /\ req' = [req EXCEPT ![r] = IdleReq]
  /\ UNCHANGED <<decls, imports, nextDeclId, nextImportId, maxInflight, started>>

\* an id of the route that is no ObjectId: findOne({ _id }) throws a CastError
MalformedId == 0

CastError(id) == id = MalformedId

\* CbamDeclaration.findOne({ _id, userId })
FindDeclaration(id, user) ==
  IF id \in DOMAIN decls /\ decls[id].userId = user THEN {id} ELSE {}

\* ----- POST /api/declarations -----
\* zod schema: quarter and year are z.number(), not restricted to integers; a
\* body's quarter is the number quarter + quarterTenths / 10
createDeclarationSchema(body) ==
  /\ 10 * body.quarter + body.quarterTenths >= 10
  /\ 10 * body.quarter + body.quarterTenths <= 40
  /\ body.year >= YearMin /\ body.year <= CurrentYear + 1

\* the validators of CbamDeclarationSchema, run by save() of a new document:
\* quarter enum, year min and max, deadlineDate required
CbamDeclarationSchemaValid(body) ==
  /\ body.quarterTenths = 0 /\ body.quarter \in {1, 2, 3, 4}
  /\ body.year >= YearMin /\ body.year <= CurrentYear + 1
  /\ calculateDeadline(body.year, body.quarter) # NoDate

ExistingDeclaration(user, year, quarter) ==
  {d \in DOMAIN decls :
     decls[d].userId = user /\ decls[d].year = year /\ decls[d].quarter = quarter}

\* mutant of NewDeclaration: the document starts in status pending
NewDeclaration_Pending(user, year, quarter) ==
  [NoDecl EXCEPT !.userId = user, !.year = year, !.quarter = quarter, !.status = "pending",
                 !.summary = ZeroSummary, !.deadlineDate = calculateDeadline(year, quarter)]

NewDeclaration(user, year, quarter) ==
  [NoDecl EXCEPT !.userId = user, !.year = year, !.quarter = quarter, !.status = "draft",
                 !.summary = ZeroSummary, !.deadlineDate = calculateDeadline(year, quarter)]

\* parse the body, then look for a declaration of the same period
POST_Declaration_FindExisting(r, user, year, quarter, tenths) ==
  /\ CanStart(r)
  /\ LET rq == NewReq("createDeclaration", user, 0, 0,
                      [NoBody EXCEPT !.year = year, !.quarter = quarter,
                                     !.quarterTenths = tenths])
         existing == IF tenths = 0 THEN ExistingDeclaration(user, year, quarter) ELSE {}
         accepted == /\ createDeclarationSchema(rq.body)
                     /\ CbamDeclarationSchemaValid(rq.body)
                     /\ existing = {}
     IN
     /\ accepted =>
          nextDeclId + Cardinality({q \in Reqs : req[q].pc = "cd_save"}) <= MaxDecls
     /\ req' = [req EXCEPT ![r] =
       IF ~createDeclarationSchema(rq.body) THEN Respond(rq, "ValidationError")
       ELSE IF existing # {} THEN Respond(rq, "DuplicatePeriod")
       ELSE [rq EXCEPT !.pc = "cd_save"]]
  /\ UNCHANGED <<decls, imports, nextDeclId, nextImportId, maxInflight>>
  /\ CountStart

\* mutant of POST_Declaration_Save: no unique index refuses the insert
POST_Declaration_Save_NoIndex(r) ==
  /\ req[r].pc = "cd_save"
  /\ LET rq == req[r] IN
     IF ~CbamDeclarationSchemaValid(rq.body)
     THEN /\ req' = [req EXCEPT ![r] = Respond(rq, "ServerError")]
          /\ UNCHANGED <<decls, nextDeclId>>
     ELSE /\ decls' = Put(decls, nextDeclId, NewDeclaration(rq.user, rq.body.year, rq.body.quarter))
          /\ nextDeclId' = nextDeclId + 1
          /\ req' = [req EXCEPT ![r] = Respond([rq EXCEPT !.declId = nextDeclId], "ok")]
  /\ UNCHANGED <<imports, nextImportId, maxInflight, started>>

\* declaration.save(): validation, then an insert, refused by the unique index
\* on (userId, year, quarter); the handler's catch answers 500 for either
POST_Declaration_Save(r) ==
  /\ req[r].pc = "cd_save"
  /\ LET rq == req[r] IN
     IF \/ ~CbamDeclarationSchemaValid(rq.body)
        \/ ExistingDeclaration(rq.user, rq.body.year, rq.body.quarter) # {}
     THEN /\ req' = [req EXCEPT ![r] = Respond(rq, "ServerError")]
          /\ UNCHANGED <<decls, nextDeclId>>
     ELSE /\ decls' = Put(decls, nextDeclId, NewDeclaration(rq.user, rq.body.year, rq.body.quarter))
          /\ nextDeclId' = nextDeclId + 1
          /\ req' = [req EXCEPT ![r] = Respond([rq EXCEPT !.declId = nextDeclId], "ok")]
  /\ UNCHANGED <<imports, nextImportId, maxInflight, started>>

\* ----- PUT /api/declarations/[id] -----
\* findOne, canBeEdited, parse, notes and the status switch up to its first save
PUT_Declaration_Find(r, user, id, notes, status) ==
  /\ CanStart(r)
  /\ LET rq == NewReq("updateDeclaration", user, id, 0,
                      [NoBody EXCEPT !.notes = notes, !.status = status])
         found == FindDeclaration(id, user)
         d0 == decls[id]
         d1 == IF notes # NoText THEN [d0 EXCEPT !.notes = notes] ELSE d0
         m1 == IF d1.notes # d0.notes THEN {"notes"} ELSE {}
     IN
     req' = [req EXCEPT ![r] =
       IF CastError(id) THEN Respond(rq, "ServerError")
       ELSE IF found = {} THEN Respond(rq, "NotFound")
       ELSE IF ~canBeEdited(d0) THEN Respond(rq, "DeclarationNotEditable")
       ELSE IF status # NoText /\ status \notin DeclarationStatuses
         THEN Respond(rq, "ValidationError")
       ELSE IF status # NoText /\ status # d1.status THEN
         IF status = "submitted" THEN
           IF ~canBeSubmitted(d1) THEN Respond(rq, "CannotSubmit")
           ELSE \* declaration.submit()
             [rq EXCEPT !.pc = "decl_save",
                        !.doc = [d1 EXCEPT !.status = "submitted", !.submittedAt = Now],
                        !.modified = m1 \cup {"status", "submittedAt"}]
         ELSE IF status = "draft" THEN
           IF d1.status = "rejected"
           THEN \* assigned on the loaded document only; no save follows
             [Respond(rq, "ok") EXCEPT
                !.doc = [d1 EXCEPT !.status = "draft", !.rejectedAt = Null,
                                   !.rejectionReason = NoText]]
           ELSE Respond(rq, "InvalidTransition")
         ELSE Respond(rq, "InvalidTransition")
       ELSE [rq EXCEPT !.pc = "decl_save", !.doc = d1, !.modified = m1]]
  /\ UNCHANGED <<decls, imports, nextDeclId, nextImportId, maxInflight>>
  /\ CountStart

\* mutant of PUT_Declaration_Save: the save drops the deadline
PUT_Declaration_Save_ClearsDeadline(r) ==
  /\ req[r].pc = "decl_save"
  /\ req[r].declId \in DOMAIN decls
  /\ decls' = [decls EXCEPT ![req[r].declId] =
                 [MergeModified(@, req[r].doc, req[r].modified) EXCEPT !.deadlineDate = NoDate]]
  /\ req' = [req EXCEPT ![r] = [Respond(req[r], "ok") EXCEPT !.doc = req[r].doc]]
  /\ UNCHANGED <<imports, nextDeclId, nextImportId, maxInflight, started>>

\* declaration.save() of the loaded document (DocumentNotFoundError when it is gone)
PUT_Declaration_Save(r) ==
  /\ req[r].pc = "decl_save"
  /\ LET rq == req[r] IN
     IF rq.declId \notin DOMAIN decls
     THEN /\ req' = [req EXCEPT ![r] = Respond(rq, "ServerError")]
          /\ UNCHANGED decls
     ELSE /\ decls' = [decls EXCEPT ![rq.declId] = MergeModified(@, rq.doc, rq.modified)]
          /\ req' = [req EXCEPT ![r] = [Respond(rq, "ok") EXCEPT !.doc = rq.doc]]
  /\ UNCHANGED <<imports, nextDeclId, nextImportId, maxInflight, started>>

\* ----- DELETE /api/declarations/[id] -----
DELETE_Declaration_Find(r, user, id) ==
  /\ CanStart(r)
  /\ LET rq == NewReq("deleteDeclaration", user, id, 0, NoBody) IN
     req' = [req EXCEPT ![r] =
       IF CastError(id) THEN Respond(rq, "ServerError")
       ELSE IF FindDeclaration(id, user) = {} THEN Respond(rq, "NotFound")
       ELSE IF ~canBeEdited(decls[id]) THEN Respond(rq, "DeclarationNotEditable")
       ELSE [rq EXCEPT !.pc = "dd_deleteMany"]]
  /\ UNCHANGED <<decls, imports, nextDeclId, nextImportId, maxInflight>>
  /\ CountStart

\* mutant of DELETE_Declaration_DeleteMany: the lines are left in the store
DELETE_Declaration_DeleteMany_NoCascade(r) ==
  /\ req[r].pc = "dd_deleteMany"
  /\ req' = [req EXCEPT ![r].pc = "dd_delete"]
  /\ UNCHANGED <<decls, imports, nextDeclId, nextImportId, maxInflight, started>>

\* CbamImport.deleteMany({ declarationId }): runs no import-line hook
DELETE_Declaration_DeleteMany(r) ==
  /\ req[r].pc = "dd_deleteMany"
  /\ imports' = Remove(imports, ImportsOf(imports, req[r].declId))
  /\ req' = [req EXCEPT ![r].pc = "dd_delete"]
  /\ UNCHANGED <<decls, nextDeclId, nextImportId, maxInflight, started>>

\* CbamDeclaration.findByIdAndDelete(id)
DELETE_Declaration_Delete(r) ==
  /\ req[r].pc = "dd_delete"
  /\ decls' = Remove(decls, {req[r].declId})
  /\ req' = [req EXCEPT ![r] = Respond(req[r], "ok")]
  /\ UNCHANGED <<imports, nextDeclId, nextImportId, maxInflight, started>>


\* ----- CbamImport schema -----
Abs(x) == IF x < 0 THEN -x ELSE x

\* pre('validate'): totalValue is corrected when it is off by more than the tolerance
PreValidate(item) ==
  LET expectedTotal == item.quantity * item.unitValue IN
  IF Abs(item.totalValue - expectedTotal) > Tolerance
  THEN [item EXCEPT !.totalValue = expectedTotal] ELSE item

\* ----- CbamImport certificate methods (amounts in 0.001 tCO2e) -----
\* Math.ceil(this.carbonEmissions)
calculateCertificatesRequired(item) == (-((-item.carbonEmissions) \div 1000)) * 1000

\* mutant of getCertificateDeficit: the difference is not clamped at 0
getCertificateDeficit_NoClamp(item) ==
  calculateCertificatesRequired(item)
    - (IF item.carbonCertificates = Undef THEN 0 ELSE item.carbonCertificates)

getCertificateDeficit(item) ==
  LET required == calculateCertificatesRequired(item)
      held == IF item.carbonCertificates = Undef THEN 0 ELSE item.carbonCertificates
  IN IF required - held > 0 THEN required - held ELSE 0

isCompliant(item) == getCertificateDeficit(item) = 0

\* the schema's min/max validators, run by save()
ImportSchemaValid(item) ==
  /\ item.quantity >= QuantityMin /\ item.quantity <= QuantityMax
  /\ item.unitValue >= UnitValueMin /\ item.unitValue <= UnitValueMax
  /\ item.totalValue >= TotalValueMin
  /\ item.carbonEmissions >= 0 /\ item.carbonEmissions <= EmissionsMax
  /\ item.carbonCertificates # Undef =>
       item.carbonCertificates >= 0 /\ item.carbonCertificates <= CertificatesMax

\* zod schema of POST /api/declarations/[id]/imports
createImportSchema(body) ==
  /\ body.productId # ""
  /\ body.quantity >= QuantityMin /\ body.quantity <= QuantityMax
  /\ body.unitValue >= UnitValueMin /\ body.unitValue <= UnitValueMax
  /\ body.carbonEmissions >= 0 /\ body.carbonEmissions <= EmissionsMax
  /\ body.carbonCertificates # Undef =>
       body.carbonCertificates >= 0 /\ body.carbonCertificates <= CertificatesMax

\* zod schema of PUT /api/declarations/[id]/imports/[importId]: every field optional
updateImportSchema(body) ==
  /\ body.quantity # Undef => body.quantity >= QuantityMin /\ body.quantity <= QuantityMax
  /\ body.unitValue # Undef => body.unitValue >= UnitValueMin /\ body.unitValue <= UnitValueMax
  /\ body.carbonEmissions # Undef =>
       body.carbonEmissions >= 0 /\ body.carbonEmissions <= EmissionsMax
  /\ body.carbonCertificates # Undef =>
       body.carbonCertificates >= 0 /\ body.carbonCertificates <= CertificatesMax

ImportBody(productId, quantity, unitValue, carbonEmissions, carbonCertificates) ==
  [NoBody EXCEPT !.productId = productId, !.quantity = quantity, !.unitValue = unitValue,
                 !.carbonEmissions = carbonEmissions, !.carbonCertificates = carbonCertificates]

\* mutant of ProductFound: isActive is not looked at
ProductFound_IgnoresActive(productId) == productId \in DOMAIN Products

ProductFound(productId) == productId \in DOMAIN Products /\ Products[productId].isActive

\* the outcomes of assigning the recomputed summary to a loaded document: the
\* path is marked modified when the value differs from the loaded one; when it
\* is equal, marking depends on the mongoose release
SummaryMarks(doc, summary) == IF doc.summary = summary THEN {{}, {"summary"}} ELSE {{"summary"}}

\* ----- POST /api/declarations/[id]/imports -----
\* findOne, canBeEdited, parse, product lookup, new CbamImport(...)
POST_Import_Find(r, user, id, body) ==
  /\ CanStart(r)
  /\ LET rq == NewReq("createImport", user, id, 0, body)
         accepted == /\ FindDeclaration(id, user) # {}
                     /\ canBeEdited(decls[id])
                     /\ createImportSchema(body)
                     /\ ProductFound(body.productId)
     IN
     /\ accepted =>
          nextImportId + Cardinality({q \in Reqs : req[q].pc = "ci_insert"}) <= MaxImports
     /\ req' = [req EXCEPT ![r] =
          IF CastError(id) THEN Respond(rq, "ServerError")
          ELSE IF FindDeclaration(id, user) = {} THEN Respond(rq, "NotFound")
          ELSE IF ~canBeEdited(decls[id]) THEN Respond(rq, "DeclarationNotEditable")
          ELSE IF ~createImportSchema(body) THEN Respond(rq, "ValidationError")
          ELSE IF ~ProductFound(body.productId) THEN Respond(rq, "ProductNotFound")
          ELSE [rq EXCEPT !.pc = "ci_insert", !.doc = decls[id],
                          !.item = [declarationId |-> id, productId |-> body.productId,
                                    quantity |-> body.quantity, unitValue |-> body.unitValue,
                                    totalValue |-> body.quantity * body.unitValue,
                                    carbonEmissions |-> body.carbonEmissions,
                                    carbonCertificates |-> body.carbonCertificates,
                                    notes |-> body.notes]]]
  /\ UNCHANGED <<decls, imports, nextDeclId, nextImportId, maxInflight>>
  /\ CountStart

\* newImport.save(): validation, then the insert; the post('save') hook follows
POST_Import_Insert(r) ==
  /\ req[r].pc = "ci_insert"
  /\ LET rq == req[r]
         item == PreValidate(rq.item)
     IN
     IF ~ImportSchemaValid(item)
     THEN /\ req' = [req EXCEPT ![r] = Respond(rq, "ServerError")]
          /\ UNCHANGED <<imports, nextImportId>>
     ELSE /\ imports' = Put(imports, nextImportId, item)
          /\ nextImportId' = nextImportId + 1
          /\ req' = [req EXCEPT ![r] = [rq EXCEPT !.pc = "hook_find", !.item = item,
                                                  !.importId = nextImportId]]
  /\ UNCHANGED <<decls, nextDeclId, maxInflight, started>>

\* ----- PUT /api/declarations/[id]/imports/[importId] -----
PUT_Import_Find(r, user, id, importId, body) ==
  /\ CanStart(r)
  /\ LET rq == NewReq("updateImport", user, id, importId, body) IN
     req' = [req EXCEPT ![r] =
       IF CastError(id) THEN Respond(rq, "ServerError")
       ELSE IF FindDeclaration(id, user) = {} THEN Respond(rq, "NotFound")
       ELSE IF ~canBeEdited(decls[id]) THEN Respond(rq, "DeclarationNotEditable")
       ELSE [rq EXCEPT !.pc = "ui_item", !.doc = decls[id]]]
  /\ UNCHANGED <<decls, imports, nextDeclId, nextImportId, maxInflight>>
  /\ CountStart

\* CbamImport.findOne({ _id, declarationId })
FindImport(importId, id) ==
  IF importId \in DOMAIN imports /\ imports[importId].declarationId = id
  THEN {importId} ELSE {}

\* mutant of AssignBody: totalValue is not recomputed
AssignBody_NoRecompute(item, body) ==
  [item EXCEPT
     !.quantity = IF body.quantity # Undef THEN body.quantity ELSE @,
     !.unitValue = IF body.unitValue # Undef THEN body.unitValue ELSE @,
     !.carbonEmissions = IF body.carbonEmissions # Undef THEN body.carbonEmissions ELSE @,
     !.carbonCertificates =
        IF body.carbonCertificates # Undef THEN body.carbonCertificates ELSE @,
     !.notes = IF body.notes # NoText THEN body.notes ELSE @]

\* mutant of AssignBody: a productId in the body is assigned as well
AssignBody_WithProduct(item, body) ==
  LET a == [item EXCEPT
              !.productId = IF body.productId # "none" THEN body.productId ELSE @,
              !.quantity = IF body.quantity # Undef THEN body.quantity ELSE @,
              !.unitValue = IF body.unitValue # Undef THEN body.unitValue ELSE @,
              !.carbonEmissions =
                 IF body.carbonEmissions # Undef THEN body.carbonEmissions ELSE @,
              !.carbonCertificates =
                 IF body.carbonCertificates # Undef THEN body.carbonCertificates ELSE @,
              !.notes = IF body.notes # NoText THEN body.notes ELSE @]
  IN IF body.quantity # Undef \/ body.unitValue # Undef
     THEN [a EXCEPT !.totalValue = a.quantity * a.unitValue] ELSE a

\* the body's keys that the schema knows and that are defined are assigned to
\* the loaded line (totalValue, productId and declarationId are no keys of the
\* schema and are dropped by parse)
AssignBody(item, body) ==
  LET a == [item EXCEPT
              !.quantity = IF body.quantity # Undef THEN body.quantity ELSE @,
              !.unitValue = IF body.unitValue # Undef THEN body.unitValue ELSE @,
              !.carbonEmissions =
                 IF body.carbonEmissions # Undef THEN body.carbonEmissions ELSE @,
              !.carbonCertificates =
                 IF body.carbonCertificates # Undef THEN body.carbonCertificates ELSE @,
              !.notes = IF body.notes # NoText THEN body.notes ELSE @]
  IN IF body.quantity # Undef \/ body.unitValue # Undef
     THEN [a EXCEPT !.totalValue = a.quantity * a.unitValue] ELSE a

ChangedPaths(old, new) == {f \in DOMAIN old : old[f] # new[f]}

\* findOne of the line, parse, assignment of the body
PUT_Import_Item(r) ==
  /\ req[r].pc = "ui_item"
  /\ LET rq == req[r] IN
     req' = [req EXCEPT ![r] =
       IF CastError(rq.importId) THEN Respond(rq, "ServerError")
       ELSE IF FindImport(rq.importId, rq.declId) = {} THEN Respond(rq, "NotFound")
       ELSE IF ~updateImportSchema(rq.body) THEN Respond(rq, "ValidationError")
       ELSE LET new == AssignBody(imports[rq.importId], rq.body) IN
            [rq EXCEPT !.pc = "ui_save", !.item = new,
                       !.itemModified = ChangedPaths(imports[rq.importId], new)]]
  /\ UNCHANGED <<decls, imports, nextDeclId, nextImportId, maxInflight, started>>

\* importItem.save(): validation, then the update of the modified paths
PUT_Import_Save(r) ==
  /\ req[r].pc = "ui_save"
  /\ LET rq == req[r]
         item == PreValidate(rq.item)
         modified == rq.itemModified \cup ChangedPaths(rq.item, item)
     IN
     IF ~ImportSchemaValid(item) \/ rq.importId \notin DOMAIN imports
     THEN /\ req' = [req EXCEPT ![r] = Respond(rq, "ServerError")]
          /\ UNCHANGED imports
     ELSE /\ imports' = [imports EXCEPT ![rq.importId] = MergeModified(@, item, modified)]
          /\ req' = [req EXCEPT ![r] = [rq EXCEPT !.pc = "hook_find", !.item = item,
                                                  !.itemModified = {}]]
  /\ UNCHANGED <<decls, nextDeclId, nextImportId, maxInflight, started>>

\* ----- DELETE /api/declarations/[id]/imports/[importId] -----
\* mutant of DELETE_Import_Find: the line is looked up before the editability check
DELETE_Import_Find_ItemFirst(r, user, id, importId) ==
  /\ CanStart(r)
  /\ LET rq == NewReq("deleteImport", user, id, importId, NoBody) IN
     req' = [req EXCEPT ![r] =
       IF CastError(id) THEN Respond(rq, "ServerError")
       ELSE IF FindDeclaration(id, user) = {} THEN Respond(rq, "NotFound")
       ELSE IF importId \notin DOMAIN imports \/ imports[importId].declarationId # id
         THEN Respond(rq, "NotFound")
       ELSE IF ~canBeEdited(decls[id]) THEN Respond(rq, "DeclarationNotEditable")
       ELSE [rq EXCEPT !.pc = "di_item", !.doc = decls[id]]]
  /\ UNCHANGED <<decls, imports, nextDeclId, nextImportId, maxInflight>>
  /\ CountStart

DELETE_Import_Find(r, user, id, importId) ==
  /\ CanStart(r)
  /\ LET rq == NewReq("deleteImport", user, id, importId, NoBody) IN
     req' = [req EXCEPT ![r] =
       IF CastError(id) THEN Respond(rq, "ServerError")
       ELSE IF FindDeclaration(id, user) = {} THEN Respond(rq, "NotFound")
       ELSE IF ~canBeEdited(decls[id]) THEN Respond(rq, "DeclarationNotEditable")
       ELSE [rq EXCEPT !.pc = "di_item", !.doc = decls[id]]]
  /\ UNCHANGED <<decls, imports, nextDeclId, nextImportId, maxInflight>>
  /\ CountStart

DELETE_Import_Item(r) ==
  /\ req[r].pc = "di_item"
  /\ req' = [req EXCEPT ![r] =
       IF CastError(req[r].importId) THEN Respond(req[r], "ServerError")
       ELSE IF FindImport(req[r].importId, req[r].declId) = {} THEN Respond(req[r], "NotFound")
       ELSE [req[r] EXCEPT !.pc = "di_delete"]]
  /\ UNCHANGED <<decls, imports, nextDeclId, nextImportId, maxInflight, started>>

\* CbamImport.findByIdAndDelete(importId); post('findOneAndDelete') runs when a
\* line was removed
DELETE_Import_Delete(r) ==
  /\ req[r].pc = "di_delete"
  /\ LET rq == req[r] IN
     IF rq.importId \in DOMAIN imports
     THEN /\ imports' = Remove(imports, {rq.importId})
          /\ req' = [req EXCEPT ![r] = [rq EXCEPT !.pc = "hook_find",
                                                  !.item = imports[rq.importId]]]
     ELSE /\ req' = [req EXCEPT ![r].pc = "sum_find"]
          /\ UNCHANGED imports
  /\ UNCHANGED <<decls, nextDeclId, nextImportId, maxInflight, started>>

\* ----- the GET handlers: findOne of the declaration, then of its lines -----
\* GET /api/declarations/[id] and GET /api/declarations/[id]/imports
GET_Declaration(r, user, id) ==
  /\ CanStart(r)
  /\ LET rq == NewReq("getDeclaration", user, id, 0, NoBody) IN
     req' = [req EXCEPT ![r] =
       IF CastError(id) THEN Respond(rq, "ServerError")
       ELSE IF FindDeclaration(id, user) = {} THEN Respond(rq, "NotFound")
       ELSE Respond(rq, "ok")]
  /\ UNCHANGED <<decls, imports, nextDeclId, nextImportId, maxInflight>>
  /\ CountStart

\* GET /api/dashboard on the day now: the statistics are reads of the store;
\* the response carries nextDeadline
GET_Dashboard(r, user, now) ==
  /\ CanStart(r)
  /\ req' = [req EXCEPT ![r] =
       [Respond(NewReq("dashboard", user, 0, 0, NoBody), "ok") EXCEPT
          !.now = now, !.nextDeadline = getNextCbamDeadline(now)]]
  /\ UNCHANGED <<decls, imports, nextDeclId, nextImportId, maxInflight>>
  /\ CountStart

\* GET /api/declarations/[id]/imports/[importId]
GET_Import(r, user, id, importId) ==
  /\ CanStart(r)
  /\ LET rq == NewReq("getImport", user, id, importId, NoBody) IN
     req' = [req EXCEPT ![r] =
       IF CastError(id) THEN Respond(rq, "ServerError")
       ELSE IF FindDeclaration(id, user) = {} THEN Respond(rq, "NotFound")
       ELSE IF CastError(importId) THEN Respond(rq, "ServerError")
       ELSE IF FindImport(importId, id) = {} THEN Respond(rq, "NotFound")
       ELSE Respond(rq, "ok")]
  /\ UNCHANGED <<decls, imports, nextDeclId, nextImportId, maxInflight>>
  /\ CountStart

\* ----- import-line hooks: CbamDeclaration.findById, then updateSummary -----
Hook_Find(r) ==
  /\ req[r].pc = "hook_find"
  /\ LET d == req[r].item.declarationId IN
     req' = [req EXCEPT ![r] =
       IF d \in DOMAIN decls THEN [req[r] EXCEPT !.pc = "hook_sum", !.hookDoc = decls[d]]
       ELSE [req[r] EXCEPT !.pc = "sum_find"]]
  /\ UNCHANGED <<decls, imports, nextDeclId, nextImportId, maxInflight, started>>

\* updateSummary of the hook's document: CbamImport.find, assignment of this.summary
Hook_Summary(r) ==
  /\ req[r].pc = "hook_sum"
  /\ LET rq == req[r]
         summary == ComputeSummary(imports, rq.item.declarationId)
     IN \E m \in SummaryMarks(rq.hookDoc, summary) :
          req' = [req EXCEPT ![r] = [rq EXCEPT !.pc = "hook_save",
                                               !.hookDoc = [rq.hookDoc EXCEPT !.summary = summary],
                                               !.hookModified = m]]
  /\ UNCHANGED <<decls, imports, nextDeclId, nextImportId, maxInflight, started>>

\* updateSummary of the hook's document: this.save()
Hook_Save(r) ==
  /\ req[r].pc = "hook_save"
  /\ LET rq == req[r]
         d == rq.item.declarationId
     IN
     IF d \notin DOMAIN decls
     THEN /\ req' = [req EXCEPT ![r] = Respond(rq, "ServerError")]
          /\ UNCHANGED decls
     ELSE /\ decls' = [decls EXCEPT ![d] = MergeModified(@, rq.hookDoc, rq.hookModified)]
          /\ req' = [req EXCEPT ![r] = [rq EXCEPT !.pc = "sum_find", !.hookDoc = NoDecl,
                                                  !.hookModified = {}]]
  /\ UNCHANGED <<imports, nextDeclId, nextImportId, maxInflight, started>>

\* mutant of Summary_Find: the loaded count is incremented, the lines are not recounted
Summary_Find_Incremental(r) ==
  /\ req[r].pc = "sum_find"
  /\ LET rq == req[r]
         summary == [ComputeSummary(imports, rq.declId) EXCEPT
                       !.totalImports = rq.doc.summary.totalImports + 1]
     IN req' = [req EXCEPT ![r] = [rq EXCEPT !.pc = "sum_save",
                                             !.doc = [rq.doc EXCEPT !.summary = summary],
                                             !.modified = {"summary"}]]
  /\ UNCHANGED <<decls, imports, nextDeclId, nextImportId, maxInflight, started>>

\* ----- the handler's own declaration.updateSummary() -----
Summary_Find(r) ==
  /\ req[r].pc = "sum_find"
  /\ LET rq == req[r]
         summary == ComputeSummary(imports, rq.declId)
     IN \E m \in SummaryMarks(rq.doc, summary) :
          req' = [req EXCEPT ![r] = [rq EXCEPT !.pc = "sum_save",
                                               !.doc = [rq.doc EXCEPT !.summary = summary],
                                               !.modified = m]]
  /\ UNCHANGED <<decls, imports, nextDeclId, nextImportId, maxInflight, started>>

Summary_Save(r) ==
  /\ req[r].pc = "sum_save"
  /\ LET rq == req[r] IN
     IF rq.declId \notin DOMAIN decls
     THEN /\ req' = [req EXCEPT ![r] = Respond(rq, "ServerError")]
          /\ UNCHANGED decls
     ELSE /\ decls' = [decls EXCEPT ![rq.declId] = MergeModified(@, rq.doc, rq.modified)]
          /\ req' = [req EXCEPT ![r] = Respond(rq, "ok")]
  /\ UNCHANGED <<imports, nextDeclId, nextImportId, maxInflight, started>>


\* mutants of validate and reject: the status guard is missing
validate_NoStatusCheck(r, id) ==
  /\ CanStart(r)
  /\ id \in DOMAIN decls
  /\ decls' = [decls EXCEPT ![id] = [@ EXCEPT !.status = "validated", !.validatedAt = Now]]
  /\ req' = [req EXCEPT ![r] = Respond(NewReq("validate", decls[id].userId, id, 0, NoBody), "ok")]
  /\ UNCHANGED <<imports, nextDeclId, nextImportId, maxInflight>>
  /\ CountStart

reject_NoStatusCheck(r, id, reason) ==
  /\ CanStart(r)
  /\ id \in DOMAIN decls
  /\ decls' = [decls EXCEPT ![id] = [@ EXCEPT !.status = "rejected", !.rejectedAt = Now,
                                              !.rejectionReason = reason]]
  /\ req' = [req EXCEPT ![r] = Respond(NewReq("reject", decls[id].userId, id, 0,
                                               [NoBody EXCEPT !.reason = reason]), "ok")]
  /\ UNCHANGED <<imports, nextDeclId, nextImportId, maxInflight>>
  /\ CountStart

\* ----- CbamDeclaration.validate() / reject(reason), called on a loaded document -----
validate(r, id) ==
  /\ CanStart(r)
  /\ id \in DOMAIN decls
  /\ LET rq == NewReq("validate", decls[id].userId, id, 0, NoBody) IN
     IF decls[id].status # "submitted"
     THEN /\ req' = [req EXCEPT ![r] = Respond(rq, "InvalidTransition")]
          /\ UNCHANGED decls
     ELSE /\ decls' = [decls EXCEPT ![id] = [@ EXCEPT !.status = "validated",
                                                     !.validatedAt = Now]]
          /\ req' = [req EXCEPT ![r] = Respond(rq, "ok")]
  /\ UNCHANGED <<imports, nextDeclId, nextImportId, maxInflight>>
  /\ CountStart

reject(r, id, reason) ==
  /\ CanStart(r)
  /\ id \in DOMAIN decls
  /\ LET rq == NewReq("reject", decls[id].userId, id, 0, [NoBody EXCEPT !.reason = reason]) IN
     IF decls[id].status # "submitted"
     THEN /\ req' = [req EXCEPT ![r] = Respond(rq, "InvalidTransition")]
          /\ UNCHANGED decls
     ELSE /\ decls' = [decls EXCEPT ![id] = [@ EXCEPT !.status = "rejected",
                                                     !.rejectedAt = Now,
                                                     !.rejectionReason = reason]]
          /\ req' = [req EXCEPT ![r] = Respond(rq, "ok")]
  /\ UNCHANGED <<imports, nextDeclId, nextImportId, maxInflight>>
  /\ CountStart

\* ----- inputs -----
DeclIds == 1..MaxDecls
ImportIds == 1..MaxImports

LineA == ImportBody("p1", 1000, 100, 1500, Undef)
LineB == ImportBody("p1", 2000, 100, 0, 2000)

\* inputs of the sequential specification
SeqInputs ==
  [users |-> {"u1", "u2"},
   creates |-> {<<"u1", 2024, 1, 0>>, <<"u1", 2024, 2, 0>>, <<"u2", 2024, 1, 0>>},
   declUpdates |-> {<<"n1", NoText>>, <<NoText, "submitted">>, <<"n1", "submitted">>,
                    <<NoText, "draft">>, <<"n1", "draft">>, <<NoText, "validated">>,
                    <<"n1", "rejected">>, <<NoText, "pending">>},
   createBodies |-> {LineA, LineB,
                     ImportBody("p1", 0, 100, 1500, Undef),
                     ImportBody("p1", 1000, 0, 1500, Undef),
                     ImportBody("p1", 1000, 100, -500, Undef),
                     ImportBody("p2", 1000, 100, 1500, Undef),
                     ImportBody("p3", 1000, 100, 1500, Undef)},
   updateBodies |-> {ImportBody("none", Undef, Undef, Undef, Undef),
                     ImportBody("none", 2000, Undef, 0, 2000),
                     ImportBody("none", 0, Undef, Undef, Undef)},
   reasons |-> {"missing invoice"},
   declIds |-> DeclIds, importIds |-> ImportIds, reads |-> {<<"u1", 1, 1>>}]

\* inputs of the interleaved specification
ConcInputs ==
  [users |-> {"u1"},
   creates |-> {<<"u1", 2024, 1, 0>>},
   declUpdates |-> {<<NoText, "submitted">>},
   createBodies |-> {LineA},
   updateBodies |-> {ImportBody("none", 2000, Undef, Undef, Undef)},
   reasons |-> {"missing invoice"},
   declIds |-> DeclIds, importIds |-> ImportIds, reads |-> {<<"u1", 1, 1>>}]

\* inputs of the import-line specification: bodies that carry a totalValue of
\* their own, updates of quantity alone, of unitValue alone and of both, and an
\* update of the notes alone whose body names another product
LineInputs ==
  [users |-> {"u1"},
   creates |-> {<<"u1", 2024, 1, 0>>},
   declUpdates |-> {<<NoText, "submitted">>},
   createBodies |-> {[LineA EXCEPT !.totalValue = 7000]},
   updateBodies |-> {[ImportBody("none", 1001, Undef, Undef, Undef) EXCEPT !.totalValue = 7000],
                     ImportBody("none", Undef, 101, Undef, Undef),
                     ImportBody("none", 2000, 200, Undef, Undef),
                     [ImportBody("p2", Undef, Undef, Undef, Undef) EXCEPT !.notes = "n1"]},
   reasons |-> {"missing invoice"},
   declIds |-> DeclIds, importIds |-> ImportIds, reads |-> {<<"u1", 1, 1>>}]

\* inputs of the period specification: every quarter, a deadline in a leap
\* year, periods at and beyond the ends of the accepted ranges, a quarter that
\* is no integer, and an empty rejection reason
EdgeInputs ==
  [users |-> {"u1"},
   creates |-> {<<"u1", 2023, 4, 0>>, <<"u1", 2024, 1, 0>>, <<"u1", 2024, 2, 0>>,
                <<"u1", 2024, 3, 0>>, <<"u1", 2025, 1, 0>>,
                <<"u1", 2022, 1, 0>>, <<"u1", 2026, 1, 0>>,
                <<"u1", 2024, 0, 0>>, <<"u1", 2024, 5, 0>>, <<"u1", 2024, 2, 5>>},
   declUpdates |-> {<<NoText, "submitted">>},
   createBodies |-> {LineA},
   updateBodies |-> {ImportBody("none", 2000, Undef, Undef, Undef)},
   reasons |-> {"", "missing invoice"},
   declIds |-> DeclIds, importIds |-> ImportIds, reads |-> {<<"u1", 1, 1>>}]

\* inputs of the access specification: two users, each addressing every
\* declaration and line, ids that exist, ids that do not, and malformed ids
AccessInputs ==
  [users |-> {"u1", "u2"},
   creates |-> {<<"u1", 2024, 1, 0>>, <<"u2", 2024, 1, 0>>},
   declUpdates |-> {<<"n1", NoText>>, <<NoText, "submitted">>},
   createBodies |-> {LineA},
   updateBodies |-> {ImportBody("none", 2000, Undef, Undef, Undef)},
   reasons |-> {"missing invoice"},
   declIds |-> DeclIds \cup {MalformedId}, importIds |-> ImportIds \cup {MalformedId},
   reads |-> {"u1", "u2"} \X (DeclIds \cup {MalformedId}) \X (ImportIds \cup {MalformedId})]

\* the days of 2024 and 2025
DaysIn(y, m) ==
  IF m = 2 THEN (IF y % 4 = 0 THEN 29 ELSE 28)
  ELSE IF m \in {4, 6, 9, 11} THEN 30 ELSE 31

Days == {dt \in [y : CurrentYear..(CurrentYear + 1), m : 1..12, d : 1..31] : dt.d <= DaysIn(dt.y, dt.m)}

\* inputs of the check-order specification: requests that are invalid in
\* themselves (body outside the schemas, unknown product, line that is not
\* stored) next to the valid ones that bring a declaration to submitted
OrderInputs ==
  [users |-> {"u1", "u2"},
   creates |-> {<<"u1", 2024, 1, 0>>},
   declUpdates |-> {<<NoText, "submitted">>, <<NoText, "archived">>},
   createBodies |-> {LineA,
                     ImportBody("p1", 0, 100, 1500, Undef),
                     ImportBody("p3", 1000, 100, 1500, Undef)},
   updateBodies |-> {ImportBody("none", 2000, Undef, Undef, Undef),
                     ImportBody("none", 0, Undef, Undef, Undef)},
   reasons |-> {"missing invoice"},
   declIds |-> DeclIds, importIds |-> ImportIds, reads |-> {<<"u1", 1, 1>>}]

\* inputs of the certificate specification: emissions that are and are not
\* whole tonnes, certificates missing, short, exact and in excess
CertInputs ==
  [users |-> {"u1"},
   creates |-> {<<"u1", 2024, 1, 0>>},
   declUpdates |-> {<<NoText, "submitted">>},
   createBodies |-> {LineA,
                     ImportBody("p1", 1000, 100, 1500, 1000),
                     ImportBody("p1", 1000, 100, 2000, 2000),
                     ImportBody("p1", 1000, 100, 1, 3000),
                     ImportBody("p1", 1000, 100, 0, Undef),
                     ImportBody("p1", 1000, 100, 2001, 2500)},
   updateBodies |-> {ImportBody("none", Undef, Undef, 999, Undef)},
   reasons |-> {"missing invoice"},
   declIds |-> DeclIds, importIds |-> ImportIds, reads |-> {<<"u1", 1, 1>>}]

\* ----- specification -----
InitStore ==
  /\ decls = <<>>
  /\ imports = <<>>
  /\ nextDeclId = 1
  /\ nextImportId = 1
  /\ req = [r \in Reqs |-> IdleReq]
  /\ started = 0

Init == InitStore /\ maxInflight = MaxReqs

SeqInit == InitStore /\ maxInflight = 1

Step(r, I) ==
  \/ \E c \in I.creates : POST_Declaration_FindExisting(r, c[1], c[2], c[3], c[4])
  \/ POST_Declaration_Save(r)
  \/ \E user \in I.users, id \in I.declIds, u \in I.declUpdates :
       PUT_Declaration_Find(r, user, id, u[1], u[2])
  \/ PUT_Declaration_Save(r)
  \/ \E user \in I.users, id \in I.declIds : DELETE_Declaration_Find(r, user, id)
  \/ DELETE_Declaration_DeleteMany(r)
  \/ DELETE_Declaration_Delete(r)
  \/ \E user \in I.users, id \in I.declIds, body \in I.createBodies :
       POST_Import_Find(r, user, id, body)
  \/ POST_Import_Insert(r)
  \/ \E user \in I.users, id \in I.declIds, importId \in I.importIds, body \in I.updateBodies :
       PUT_Import_Find(r, user, id, importId, body)
  \/ PUT_Import_Item(r)
  \/ PUT_Import_Save(r)
  \/ \E user \in I.users, id \in I.declIds, importId \in I.importIds :
       DELETE_Import_Find(r, user, id, importId)
  \/ DELETE_Import_Item(r)
  \/ DELETE_Import_Delete(r)
  \/ \E g \in I.reads : GET_Declaration(r, g[1], g[2])
  \/ \E g \in I.reads : GET_Import(r, g[1], g[2], g[3])
  \/ Hook_Find(r)
  \/ Hook_Summary(r)
  \/ Hook_Save(r)
  \/ Summary_Find(r)
  \/ Summary_Save(r)
  \/ \E id \in DeclIds : validate(r, id)
  \/ \E id \in DeclIds, reason \in I.reasons : reject(r, id, reason)
  \/ Release(r)

Next == \E r \in Reqs : Step(r, ConcInputs)

SeqNext == \E r \in Reqs : Step(r, SeqInputs)

LineNext == \E r \in Reqs : Step(r, LineInputs)

Spec == Init /\ [][Next]_vars

LineSpec == SeqInit /\ [][LineNext]_vars

AccessNext == \E r \in Reqs : Step(r, AccessInputs)

AccessSpec == SeqInit /\ [][AccessNext]_vars

\* the dashboard is read on every day of a leap and of a common year
DashNext ==
  \E r \in Reqs :
    \/ \E now \in Days : GET_Dashboard(r, "u1", now)
    \/ Release(r)

DashSpec == SeqInit /\ [][DashNext]_vars

\* interleavings of declaration creation and update (submission) with
\* import-line creation, update and deletion
SubmitStep(r) ==
  \/ \E c \in ConcInputs.creates : POST_Declaration_FindExisting(r, c[1], c[2], c[3], c[4])
  \/ POST_Declaration_Save(r)
  \/ \E user \in ConcInputs.users, id \in DeclIds, u \in ConcInputs.declUpdates :
       PUT_Declaration_Find(r, user, id, u[1], u[2])
  \/ PUT_Declaration_Save(r)
  \/ \E user \in ConcInputs.users, id \in DeclIds, body \in ConcInputs.createBodies :
       POST_Import_Find(r, user, id, body)
  \/ POST_Import_Insert(r)
  \/ \E user \in ConcInputs.users, id \in DeclIds, importId \in ImportIds,
        body \in ConcInputs.updateBodies :
       PUT_Import_Find(r, user, id, importId, body)
  \/ PUT_Import_Item(r)
  \/ PUT_Import_Save(r)
  \/ \E user \in ConcInputs.users, id \in DeclIds, importId \in ImportIds :
       DELETE_Import_Find(r, user, id, importId)
  \/ DELETE_Import_Item(r)
  \/ DELETE_Import_Delete(r)
  \/ Hook_Find(r)
  \/ Hook_Summary(r)
  \/ Hook_Save(r)
  \/ Summary_Find(r)
  \/ Summary_Save(r)
  \/ Release(r)

SubmitNext == \E r \in Reqs : SubmitStep(r)

SubmitSpec == Init /\ [][SubmitNext]_vars

OrderNext == \E r \in Reqs : Step(r, OrderInputs)

OrderSpec == SeqInit /\ [][OrderNext]_vars

CertNext == \E r \in Reqs : Step(r, CertInputs)

CertSpec == SeqInit /\ [][CertNext]_vars

EdgeNext == \E r \in Reqs : Step(r, EdgeInputs)

EdgeSpec == SeqInit /\ [][EdgeNext]_vars

SeqSpec == SeqInit /\ [][SeqNext]_vars


\* ======================= properties =======================
\* no handler is between two of its steps
Quiet == \A r \in Reqs : req[r].pc \in {"idle", "done"}

\* under SeqSpec every handler runs in slot 1; R is the request that has just
\* been answered, R.pre the store it found
R == req[1]
Completed(op) == R.pc = "done" /\ R.op = op
PreFound == R.declId \in DOMAIN R.pre.decls /\ R.pre.decls[R.declId].userId = R.user
PreDecl == R.pre.decls[R.declId]
PreLines == ImportsOf(R.pre.imports, R.declId)
StoreUnchanged == decls = R.pre.decls /\ imports = R.pre.imports

\* the sums the summary is specified to hold, over the lines now stored for d
LinesOf(d) == {i \in DOMAIN imports : imports[i].declarationId = d}

RECURSIVE Total(_, _)
Total(S, field) ==
  IF S = {} THEN 0
  ELSE LET i == CHOOSE j \in S : TRUE
           v == imports[i][field]
       IN (IF v = Undef THEN 0 ELSE v) + Total(S \ {i}, field)

SummaryMatchesLines(d) ==
  /\ decls[d].summary.totalImports = Cardinality(LinesOf(d))
  /\ decls[d].summary.totalQuantity = Total(LinesOf(d), "quantity")
  /\ decls[d].summary.totalValue = Total(LinesOf(d), "totalValue")
  /\ decls[d].summary.totalEmissions = Total(LinesOf(d), "carbonEmissions")
  /\ decls[d].summary.totalCertificatesRequired = Total(LinesOf(d), "carbonEmissions")
  /\ decls[d].summary.totalCertificatesHeld = Total(LinesOf(d), "carbonCertificates")

\* C1: after any sequence of sequentially executed import-line creates, updates
\* and deletes, every declaration's stored summary is the element-wise sum over
\* the import lines that currently belong to it.
C1_SummaryIsSumOfLines ==
  Quiet => \A d \in DOMAIN decls : SummaryMatchesLines(d)

\* a line was deleted from a declaration that keeps another line
C1_Witness ==
  /\ Completed("deleteImport") /\ R.result = "ok"
  /\ LinesOf(R.declId) # {}
  /\ decls[R.declId].summary.totalImports = 1

\* C2: once two concurrent import-line mutations of one declaration have both
\* completed, the stored summary is the element-wise sum over its current lines.
C2_ConcurrentSummaryIsSumOfLines ==
  \A r \in Reqs, q \in Reqs :
    (/\ r # q /\ Quiet
     /\ req[r].pc = "done" /\ req[q].pc = "done"
     /\ req[r].op \in {"createImport", "updateImport", "deleteImport"}
     /\ req[q].op \in {"createImport", "updateImport", "deleteImport"}
     /\ req[r].declId = req[q].declId
     /\ req[r].declId \in DOMAIN decls) => SummaryMatchesLines(req[r].declId)

\* C3: submit on a draft without lines fails with CannotSubmit and changes
\* nothing; on a draft with a line it succeeds, sets status submitted and
\* submittedAt; from any other status it fails.
C3_Submit ==
  (Completed("updateDeclaration") /\ R.body.status = "submitted" /\ PreFound) =>
    /\ (PreDecl.status = "draft" /\ PreLines = {}) =>
          R.result = "CannotSubmit" /\ StoreUnchanged
    /\ (PreDecl.status = "draft" /\ PreLines # {}) =>
          /\ R.result = "ok"
          /\ decls[R.declId].status = "submitted"
          /\ decls[R.declId].submittedAt # Null
    /\ PreDecl.status # "draft" => R.result # "ok" /\ StoreUnchanged

C3_Witness ==
  /\ Completed("updateDeclaration") /\ R.body.status = "submitted" /\ R.result = "ok"
  /\ PreFound /\ PreDecl.status = "draft" /\ PreLines # {}
  /\ decls[R.declId].status = "submitted"


\* ----- C4: the status workflow -----
AllowedTransition(from, to) ==
  <<from, to>> \in {<<"draft", "submitted">>, <<"submitted", "validated">>,
                    <<"submitted", "rejected">>, <<"rejected", "draft">>}

\* the answered request asked to move its declaration to status RequestedStatus
IsTransitionRequest ==
  /\ R.pc = "done"
  /\ \/ R.op = "updateDeclaration" /\ R.body.status # NoText
     \/ R.op \in {"validate", "reject"}
  /\ PreFound

RequestedStatus ==
  IF R.op = "validate" THEN "validated"
  ELSE IF R.op = "reject" THEN "rejected"
  ELSE R.body.status

\* every store step creates declarations in draft and moves a stored status
\* along the workflow or not at all
StatusStep ==
  \A d \in DOMAIN decls' :
    IF d \in DOMAIN decls
    THEN \/ decls'[d].status = decls[d].status
         \/ AllowedTransition(decls[d].status, decls'[d].status)
    ELSE decls'[d].status = "draft"

\* how the code refuses a transition that is not in the workflow
RefusalOf(op, from, to) ==
  IF op \in {"validate", "reject"} THEN "InvalidTransition"
  ELSE IF from \in {"submitted", "validated"} THEN "DeclarationNotEditable"
  ELSE IF to = "submitted" THEN "CannotSubmit"
  ELSE "InvalidTransition"

C4_RefusedAsCoded ==
  (IsTransitionRequest /\ ~AllowedTransition(PreDecl.status, RequestedStatus)) =>
    IF R.op = "updateDeclaration" /\ RequestedStatus = PreDecl.status /\ canBeEdited(PreDecl)
    THEN R.result = "ok" /\ decls[R.declId].status = PreDecl.status
    ELSE /\ R.result = RefusalOf(R.op, PreDecl.status, RequestedStatus)
         /\ StoreUnchanged

\* C4 (amended): declarations start in draft; every step keeps a stored status
\* or moves it by draft->submitted, submitted->validated, submitted->rejected or
\* rejected->draft; a request for any other transition is refused and leaves the
\* store unchanged - with InvalidTransition from validate()/reject() or for a
\* status update to validated, rejected or pending on an editable declaration,
\* with DeclarationNotEditable for a status update on a submitted or validated
\* declaration, with CannotSubmit for rejected->submitted - except that a status
\* update naming the current status of a draft or rejected declaration is
\* accepted and keeps the status.
C4_Workflow == [][StatusStep /\ C4_RefusedAsCoded']_vars

\* a status update asked to move a validated declaration back to draft
C4_Witness ==
  /\ IsTransitionRequest /\ R.op = "updateDeclaration"
  /\ PreDecl.status = "validated" /\ RequestedStatus = "draft"
  /\ R.result = "DeclarationNotEditable"

\* C4 as stated, for requests that name another status than the current one:
\* every request for a transition outside the workflow fails with
\* InvalidTransition and leaves the declaration unchanged.
C4_Original ==
  (/\ IsTransitionRequest /\ RequestedStatus # PreDecl.status
   /\ ~AllowedTransition(PreDecl.status, RequestedStatus)) =>
    R.result = "InvalidTransition" /\ StoreUnchanged

\* C5: validate() and reject() on a declaration that is not submitted fail with
\* InvalidTransition and leave status, validatedAt, rejectedAt and
\* rejectionReason as they were; validate() on a submitted declaration sets
\* status validated and validatedAt.
C5_ValidateReject ==
  ((Completed("validate") \/ Completed("reject")) /\ PreFound) =>
    /\ PreDecl.status # "submitted" =>
         /\ R.result = "InvalidTransition"
         /\ decls[R.declId].status = PreDecl.status
         /\ decls[R.declId].validatedAt = PreDecl.validatedAt
         /\ decls[R.declId].rejectedAt = PreDecl.rejectedAt
         /\ decls[R.declId].rejectionReason = PreDecl.rejectionReason
    /\ (PreDecl.status = "submitted" /\ R.op = "validate") =>
         /\ R.result = "ok"
         /\ decls[R.declId].status = "validated"
         /\ decls[R.declId].validatedAt # Null

\* reject() was called on a declaration that an earlier reject() had rejected
C5_Witness ==
  /\ Completed("reject") /\ PreFound /\ PreDecl.status = "rejected"
  /\ R.result = "InvalidTransition"
  /\ decls[R.declId].rejectedAt # Null

\* ----- C6: editability -----
MutatingOps ==
  {"createImport", "updateImport", "deleteImport", "updateDeclaration", "deleteDeclaration"}

\* C6: every mutating operation on a submitted or validated declaration fails
\* with DeclarationNotEditable and leaves declarations and lines unchanged; on a
\* draft or rejected declaration it is not refused as not editable, and a valid
\* import line added to a rejected declaration is stored and summed.
C6_Editability ==
  (R.pc = "done" /\ R.op \in MutatingOps /\ PreFound) =>
    /\ PreDecl.status \in {"submitted", "validated"} =>
         R.result = "DeclarationNotEditable" /\ StoreUnchanged
    /\ PreDecl.status \in {"draft", "rejected"} => R.result # "DeclarationNotEditable"
    /\ (/\ R.op = "createImport" /\ PreDecl.status = "rejected"
        /\ createImportSchema(R.body) /\ ProductFound(R.body.productId)) =>
         /\ R.result = "ok"
         /\ Cardinality(LinesOf(R.declId)) = Cardinality(PreLines) + 1
         /\ SummaryMatchesLines(R.declId)

\* an import line was added to a rejected declaration
C6_Witness ==
  /\ Completed("createImport") /\ PreFound /\ PreDecl.status = "rejected" /\ R.result = "ok"
  /\ Cardinality(LinesOf(R.declId)) = 2

\* C7: once a declaration is stored as validated, no step of any sequentially
\* executed operation changes its status, its summary or its import lines, or
\* deletes it.
C7_ValidatedIsTerminal ==
  [][\A d \in DOMAIN decls :
       decls[d].status = "validated" =>
         /\ d \in DOMAIN decls'
         /\ decls'[d].status = "validated"
         /\ decls'[d].summary = decls[d].summary
         /\ ImportsOf(imports', d) = ImportsOf(imports, d)
         /\ \A i \in ImportsOf(imports, d) : imports'[i] = imports[i]]_vars

\* the deletion of a validated declaration was refused
C7_Witness ==
  /\ Completed("deleteDeclaration") /\ PreFound /\ PreDecl.status = "validated"
  /\ R.declId \in DOMAIN decls /\ decls[R.declId].status = "validated"
  /\ LinesOf(R.declId) # {}

\* C8: a status update to draft on a rejected declaration succeeds and the
\* stored declaration is then a draft with rejectedAt and rejectionReason
\* cleared; on any other status it does not move the declaration to draft.
C8_BackToDraft ==
  (Completed("updateDeclaration") /\ R.body.status = "draft" /\ PreFound) =>
    IF PreDecl.status = "rejected"
    THEN /\ R.result = "ok"
         /\ decls[R.declId].status = "draft"
         /\ decls[R.declId].rejectedAt = Null
         /\ decls[R.declId].rejectionReason = NoText
    ELSE decls[R.declId].status = PreDecl.status

\* ----- C9, C10: one declaration per (user, year, quarter) -----
SamePeriod(a, b) ==
  /\ decls[a].userId = decls[b].userId
  /\ decls[a].year = decls[b].year
  /\ decls[a].quarter = decls[b].quarter

\* C9: in every reachable state, also with creation requests interleaved, no two
\* stored declarations have the same (user, year, quarter).
C9_UniquePeriod ==
  \A a \in DOMAIN decls, b \in DOMAIN decls : SamePeriod(a, b) => a = b

\* two creations of one period overlapped and the later insert was refused
C9_Witness ==
  \E r \in Reqs, q \in Reqs :
    /\ req[r].pc = "done" /\ req[r].op = "createDeclaration" /\ req[r].result = "ServerError"
    /\ req[q].pc = "done" /\ req[q].op = "createDeclaration" /\ req[q].result = "ok"
    /\ req[q].body = req[r].body /\ req[q].user = req[r].user

\* C10: a creation for a period that already has a declaration fails with
\* DuplicatePeriod, also when it lost against a concurrent creation.
C10_DuplicatePeriod ==
  \A r \in Reqs :
    (/\ req[r].pc = "done" /\ req[r].op = "createDeclaration"
     /\ createDeclarationSchema(req[r].body)
     /\ req[r].result # "ok") => req[r].result = "DuplicatePeriod"

\* ----- C11: deletion of a declaration -----
\* C11: deleting a declaration is refused unless it is draft or rejected; a
\* sequentially executed deletion removes the declaration and every line that
\* referenced it and leaves the other declarations and lines as they were; when
\* no handler is running every stored line references a stored declaration.
C11_DeleteCascade ==
  /\ Quiet => \A i \in DOMAIN imports : imports[i].declarationId \in DOMAIN decls
  /\ (Completed("deleteDeclaration") /\ PreFound) =>
       IF PreDecl.status \in {"draft", "rejected"}
       THEN /\ R.result = "ok"
            /\ R.declId \notin DOMAIN decls
            /\ ImportsOf(imports, R.declId) = {}
            /\ DOMAIN decls = DOMAIN R.pre.decls \ {R.declId}
            /\ \A d \in DOMAIN decls : decls[d] = R.pre.decls[d]
            /\ DOMAIN imports = DOMAIN R.pre.imports \ PreLines
            /\ \A i \in DOMAIN imports : imports[i] = R.pre.imports[i]
       ELSE R.result = "DeclarationNotEditable" /\ StoreUnchanged

\* a declaration with a line was deleted while another declaration keeps its line
C11_Witness ==
  /\ Completed("deleteDeclaration") /\ R.result = "ok" /\ PreFound
  /\ PreLines # {}
  /\ DOMAIN imports # {}
  /\ R.declId \notin DOMAIN decls

\* ----- C12: what updateSummary computes -----
RECURSIVE TotalProduct(_)
TotalProduct(S) ==
  IF S = {} THEN 0
  ELSE LET i == CHOOSE j \in S : TRUE
       IN imports[i].quantity * imports[i].unitValue + TotalProduct(S \ {i})

ExpectedSummary(d) ==
  [totalImports |-> Cardinality(LinesOf(d)),
   totalQuantity |-> Total(LinesOf(d), "quantity"),
   totalValue |-> TotalProduct(LinesOf(d)),
   totalEmissions |-> Total(LinesOf(d), "carbonEmissions"),
   totalCertificatesRequired |-> Total(LinesOf(d), "carbonEmissions"),
   totalCertificatesHeld |-> Total(LinesOf(d), "carbonCertificates")]

\* C12: the summary updateSummary has assigned, before it saves, is the count of
\* the declaration's lines, the sums of quantity, of quantity x unitValue, of
\* carbonEmissions (twice, raw) and of carbonCertificates with a missing value
\* counted as 0.
C12_UpdateSummary ==
  \A r \in Reqs :
    /\ req[r].pc = "sum_save" => req[r].doc.summary = ExpectedSummary(req[r].declId)
    /\ req[r].pc = "hook_save" =>
         req[r].hookDoc.summary = ExpectedSummary(req[r].item.declarationId)

\* updateSummary ran over two lines, one without certificates and with
\* emissions that are not a whole number of tonnes
C12_Witness ==
  /\ R.pc = "sum_save"
  /\ Cardinality(LinesOf(R.declId)) = 2
  /\ \E i \in LinesOf(R.declId) :
       imports[i].carbonCertificates = Undef /\ imports[i].carbonEmissions % 1000 # 0
  /\ R.doc.summary.totalCertificatesRequired = 1500
  /\ R.doc.summary.totalCertificatesHeld = 2000
  /\ R.doc.summary.totalValue = 300000

C14_AllOrNothing ==
  \A r \in Reqs :
    (req[r].pc = "done" /\ req[r].op = "createImport" /\ req[r].result # "ok") =>
      req[r].importId \notin DOMAIN imports

\* ----- C15: createImportLine with a candidate that violates a precondition -----
CandidateViolates(body) ==
  body.quantity <= 0 \/ body.unitValue <= 0 \/ body.carbonEmissions < 0

C16_TotalValue ==
  \A i \in DOMAIN imports :
    imports[i].totalValue = imports[i].quantity * imports[i].unitValue

\* an update of unitValue alone, after one of quantity alone, was stored
C16_Witness ==
  /\ Completed("updateImport") /\ R.result = "ok"
  /\ R.body.quantity = Undef /\ R.body.unitValue = 101
  /\ R.importId \in DOMAIN imports
  /\ imports[R.importId].quantity = 1001
  /\ imports[R.importId].unitValue = 101
  /\ imports[R.importId].totalValue = 101101

\* ----- C17: the deadline of a period -----
\* the dates the specification gives
Deadline(year, quarter) ==
  CASE quarter = 1 -> [y |-> year, m |-> 5, d |-> 31]
    [] quarter = 2 -> [y |-> year, m |-> 8, d |-> 31]
    [] quarter = 3 -> [y |-> year, m |-> 11, d |-> 30]
    [] quarter = 4 -> [y |-> year + 1, m |-> 2, d |-> 28]

C18_PeriodAndDeadlineFixed ==
  [][\A d \in DOMAIN decls \cap DOMAIN decls' :
       /\ decls'[d].year = decls[d].year
       /\ decls'[d].quarter = decls[d].quarter
       /\ decls'[d].deadlineDate = decls[d].deadlineDate]_vars

\* a declaration has had its notes set, a line added, was submitted and
\* rejected, and a line added again: it still has the deadline of its period
C18_Witness ==
  /\ Completed("createImport") /\ R.result = "ok"
  /\ decls[R.declId].status = "rejected"
  /\ decls[R.declId].notes = "n1"
  /\ decls[R.declId].summary.totalImports = 2
  /\ decls[R.declId].deadlineDate = calculateDeadline(decls[R.declId].year, decls[R.declId].quarter)

\* ----- C19: createDeclaration with a period outside the accepted range -----
\* the answer 400 'Donnees invalides' of POST /api/declarations is the refusal
\* the specification calls InvalidPeriod
InvalidPeriod == "ValidationError"

PeriodOutside(body) ==
  \/ ~(body.quarterTenths = 0 /\ body.quarter \in 1..4)
  \/ body.year < YearMin
  \/ body.year > CurrentYear + 1

\* C19: createDeclaration with a quarter outside 1..4 or a year below 2023 or
\* above the current year + 1 is refused with InvalidPeriod and stores nothing;
\* no stored declaration lacks a deadlineDate.
C19_InvalidPeriod ==
  /\ (Completed("createDeclaration") /\ PeriodOutside(R.body)) =>
       R.result = InvalidPeriod /\ StoreUnchanged
  /\ \A d \in DOMAIN decls : decls[d].deadlineDate # NoDate

\* ----- C20: reject(reason) on a submitted declaration -----
\* C20: reject(reason) on a submitted declaration fails and changes nothing when
\* the reason is empty; otherwise it sets status rejected and rejectedAt and
\* stores the reason as rejectionReason.
C20_RejectNeedsReason ==
  (Completed("reject") /\ PreFound /\ PreDecl.status = "submitted") =>
    IF R.body.reason = ""
    THEN R.result # "ok" /\ StoreUnchanged
    ELSE /\ R.result = "ok"
         /\ decls[R.declId].status = "rejected"
         /\ decls[R.declId].rejectedAt # Null
         /\ decls[R.declId].rejectionReason = R.body.reason

\* ----- C21: what a caller cannot address is not found -----
AddressedOps ==
  {"getDeclaration", "getImport", "updateDeclaration", "deleteDeclaration",
   "createImport", "updateImport", "deleteImport"}

PreLineFound ==
  R.importId \in DOMAIN R.pre.imports /\ R.pre.imports[R.importId].declarationId = R.declId

\* C21: an operation addressed to a declaration that does not exist or is owned
\* by another user fails with NotFound and changes nothing; so does a read, or a
\* mutation of an editable declaration of the caller, that names an import line
\* which does not exist or belongs to another declaration.
C21_NotFound ==
  /\ (R.pc = "done" /\ R.op \in AddressedOps /\ ~PreFound) =>
       R.result = "NotFound" /\ StoreUnchanged
  /\ (/\ R.pc = "done" /\ PreFound /\ ~PreLineFound
      /\ \/ R.op = "getImport"
         \/ R.op \in {"updateImport", "deleteImport"} /\ canBeEdited(PreDecl)) =>
       R.result = "NotFound" /\ StoreUnchanged

\* no step of a request of one user changes a declaration or a line of another
IsolationStep ==
  \A r \in Reqs :
    (req'[r].pc # "idle" /\ req'[r].op \notin {"none", "createDeclaration"}) =>
      /\ \A d \in DOMAIN decls :
           decls[d].userId # req'[r].user => d \in DOMAIN decls' /\ decls'[d] = decls[d]
      /\ \A i \in DOMAIN imports :
           (/\ imports[i].declarationId \in DOMAIN decls
            /\ decls[imports[i].declarationId].userId # req'[r].user) =>
             i \in DOMAIN imports' /\ imports'[i] = imports[i]

Isolation == [][IsolationStep]_vars

\* ----- C22: certificates of a line -----
\* the least whole number of tonnes that is not below x, in 0.001 t
CeilingOf(x) == 1000 * (CHOOSE n \in 0..(x \div 1000 + 1) : 1000 * n >= x /\ 1000 * (n - 1) < x)

HeldOf(item) == IF item.carbonCertificates = Undef THEN 0 ELSE item.carbonCertificates

\* C22: for every stored line, certificates required = ceiling(carbonEmissions),
\* deficit = max(0, required - held) with missing certificates counted as 0 and
\* never negative, and the line is compliant exactly when held >= required.
C22_Certificates ==
  \A i \in DOMAIN imports :
    LET item == imports[i] IN
    /\ calculateCertificatesRequired(item) = CeilingOf(item.carbonEmissions)
    /\ getCertificateDeficit(item) >= 0
    /\ getCertificateDeficit(item) =
         (IF CeilingOf(item.carbonEmissions) > HeldOf(item)
          THEN CeilingOf(item.carbonEmissions) - HeldOf(item) ELSE 0)
    /\ isCompliant(item) <=> HeldOf(item) >= CeilingOf(item.carbonEmissions)

\* stored together: a line holding more certificates than required and a line
\* whose fractional emissions leave it half a certificate short
C22_Witness ==
  \E i \in DOMAIN imports, j \in DOMAIN imports :
    /\ imports[i].carbonEmissions = 1 /\ imports[i].carbonCertificates = 3000
    /\ isCompliant(imports[i])
    /\ imports[j].carbonEmissions = 2001 /\ imports[j].carbonCertificates = 2500
    /\ getCertificateDeficit(imports[j]) = 500

\* ----- C23: editability is checked first -----
\* the request would be refused for a reason of its own on an editable declaration
InvalidInItself ==
  \/ R.op = "createImport" /\ (~createImportSchema(R.body) \/ ~ProductFound(R.body.productId))
  \/ R.op \in {"updateImport", "deleteImport"} /\ ~PreLineFound
  \/ R.op = "updateImport" /\ ~updateImportSchema(R.body)
  \/ R.op = "updateDeclaration" /\ R.body.status \notin DeclarationStatuses \cup {NoText}

\* C23: on a declaration of the caller that is submitted or validated, a
\* mutating request that is invalid in itself (invalid candidate, unknown
\* product, import line that is not stored, invalid declaration body) fails with
\* DeclarationNotEditable, not with ValidationError, ProductNotFound or NotFound;
\* on a missing or foreign declaration such a request fails with NotFound.
C23_EditabilityFirst ==
  (R.pc = "done" /\ R.op \in MutatingOps /\ InvalidInItself) =>
    /\ (PreFound /\ PreDecl.status \in {"submitted", "validated"}) =>
         R.result = "DeclarationNotEditable"
    /\ (~PreFound /\ ~CastError(R.declId)) => R.result = "NotFound"

\* a delete naming a line that is not stored was refused on a validated declaration
C23_Witness ==
  /\ Completed("deleteImport") /\ PreFound /\ PreDecl.status = "validated"
  /\ ~PreLineFound /\ R.result = "DeclarationNotEditable"

\* ----- C24: a submitted declaration is frozen under interleaving -----
\* C24: in every interleaving of requests, a declaration whose stored status is
\* submitted has at least one import line, and while it stays submitted no step
\* changes its import lines or its summary.
C24_SubmittedFrozen ==
  [][\A d \in DOMAIN decls' :
       decls'[d].status = "submitted" =>
         /\ ImportsOf(imports', d) # {}
         /\ (d \in DOMAIN decls /\ decls[d].status = "submitted") =>
              /\ decls'[d].summary = decls[d].summary
              /\ ImportsOf(imports', d) = ImportsOf(imports, d)
              /\ \A i \in ImportsOf(imports, d) : imports'[i] = imports[i]]_vars

\* ----- C25: no orphan line after delete and createImportLine -----
\* C25: once a deleteDeclaration and a createImportLine on the same declaration
\* have both completed, every stored import line references a stored declaration.
C25_NoOrphan ==
  \A r \in Reqs, q \in Reqs :
    (/\ req[r].pc = "done" /\ req[r].op = "deleteDeclaration"
     /\ req[q].pc = "done" /\ req[q].op = "createImport"
     /\ req[q].declId = req[r].declId) =>
      \A i \in DOMAIN imports : imports[i].declarationId \in DOMAIN decls

\* ----- C26: a successful declaration update is persisted -----
\* C26: when a declaration update reports success, the stored declaration carries
\* the supplied notes and the requested status, and equals the snapshot returned
\* to the caller.
C26_UpdatePersisted ==
  (Completed("updateDeclaration") /\ R.result = "ok") =>
    /\ R.declId \in DOMAIN decls
    /\ R.body.notes # NoText => decls[R.declId].notes = R.body.notes
    /\ R.body.status # NoText => decls[R.declId].status = R.body.status
    /\ decls[R.declId] = R.doc

\* ----- C27: pending is never stored; validated and rejected come from validate() and reject() -----
NeverPending == \A d \in DOMAIN decls : decls[d].status # "pending"

\* a step that stores validated or rejected is validate() or reject() on a
\* submitted declaration
OnlyByValidateReject ==
  \A d \in DOMAIN decls' :
    (/\ decls'[d].status \in {"validated", "rejected"}
     /\ (d \notin DOMAIN decls \/ decls[d].status # decls'[d].status)) =>
      /\ d \in DOMAIN decls /\ decls[d].status = "submitted"
      /\ req'[1].pc = "done" /\ req'[1].declId = d /\ req'[1].result = "ok"
      /\ req'[1].op = (IF decls'[d].status = "validated" THEN "validate" ELSE "reject")

AsksReviewStatus ==
  /\ Completed("updateDeclaration") /\ PreFound
  /\ R.body.status \in {"pending", "validated", "rejected"}

\* the refusal as the claim states it
C27_RefusedAlways == AsksReviewStatus => (R.result # "ok" /\ StoreUnchanged)

\* the refusal as coded: naming the current status of a rejected declaration is
\* an update of the notes
C27_RefusedUnlessCurrent ==
  AsksReviewStatus =>
    IF R.body.status = PreDecl.status /\ canBeEdited(PreDecl)
    THEN /\ R.result = "ok"
         /\ imports = R.pre.imports
         /\ decls = [R.pre.decls EXCEPT ![R.declId] =
                       [@ EXCEPT !.notes = IF R.body.notes # NoText THEN R.body.notes ELSE @]]
    ELSE /\ R.result \in {"InvalidTransition", "DeclarationNotEditable"}
         /\ StoreUnchanged

\* C27 (amended): no step stores status pending; validated and rejected are
\* stored only by validate() and reject() on a submitted declaration; a status
\* update asking for pending, validated or rejected is refused and leaves the
\* declaration and its notes unchanged, unless it names the current status of a
\* rejected declaration, in which case it succeeds and changes the notes only.
C27_NoPending == [][NeverPending' /\ OnlyByValidateReject /\ C27_RefusedUnlessCurrent']_vars

\* a status update carrying notes asked a draft for rejected: refused, notes kept
C27_Witness ==
  /\ AsksReviewStatus /\ R.body.status = "rejected" /\ R.body.notes = "n1"
  /\ PreDecl.status = "draft" /\ PreDecl.notes = NoText
  /\ R.result = "InvalidTransition" /\ decls[R.declId].notes = NoText

\* C27 as stated: every status update asking for pending, validated or rejected
\* is refused and changes nothing.
C27_Original == [][NeverPending' /\ OnlyByValidateReject /\ C27_RefusedAlways']_vars

\* ----- C28: lifecycle timestamps agree with the status -----
TimestampsConsistent(doc) ==
  /\ doc.status \in {"submitted", "validated"} => doc.submittedAt # Null
  /\ doc.status = "validated" => doc.validatedAt # Null
  /\ doc.status = "rejected" => doc.rejectedAt # Null /\ doc.submittedAt # Null

NothingSet(doc) ==
  /\ doc.submittedAt = Null /\ doc.validatedAt = Null /\ doc.rejectedAt = Null
  /\ doc.rejectionReason = NoText

\* C28: every stored declaration has the timestamps its status calls for; a
\* declaration is created with submittedAt, validatedAt, rejectedAt and
\* rejectionReason unset, and they stay unset in every step that does not store
\* it as submitted.
C28_Timestamps ==
  [][\A d \in DOMAIN decls' :
       /\ TimestampsConsistent(decls'[d])
       /\ d \notin DOMAIN decls => NothingSet(decls'[d])
       /\ (d \in DOMAIN decls /\ NothingSet(decls[d]) /\ decls'[d].status # "submitted") =>
            NothingSet(decls'[d])]_vars

\* a rejected declaration with its dates and reason next to a draft that was
\* never submitted
C28_Witness ==
  \E d \in DOMAIN decls, e \in DOMAIN decls :
    /\ decls[d].status = "rejected" /\ decls[d].rejectedAt # Null
    /\ decls[d].submittedAt # Null /\ decls[d].rejectionReason # NoText
    /\ decls[e].status = "draft" /\ NothingSet(decls[e])
    /\ ImportsOf(imports, e) # {}

\* ----- C29: what updateImportLine leaves alone -----
AmountKeys == {"quantity", "unitValue", "carbonEmissions", "carbonCertificates"}

\* C29: a completed updateImportLine leaves the line's declarationId and
\* productId as they were and keeps every field the request does not supply; when
\* the request supplies no amount, the line's quantity, unitValue, totalValue and
\* carbonEmissions, the other lines and the declaration's summary are unchanged.
C29_UpdateKeeps ==
  (Completed("updateImport") /\ PreFound /\ PreLineFound) =>
    /\ R.importId \in DOMAIN imports
    /\ LET old == R.pre.imports[R.importId]
           new == imports[R.importId]
       IN
       /\ new.declarationId = old.declarationId
       /\ new.productId = old.productId
       /\ \A f \in AmountKeys : R.body[f] = Undef => new[f] = old[f]
       /\ R.body.notes = NoText => new.notes = old.notes
       /\ (\A f \in AmountKeys : R.body[f] = Undef) =>
            /\ new.totalValue = old.totalValue
            /\ \A i \in DOMAIN imports : i # R.importId => imports[i] = R.pre.imports[i]
            /\ decls[R.declId].summary = PreDecl.summary

\* an update of the notes alone, naming another product, was stored on a line
\* of a declaration that has two lines
C29_Witness ==
  /\ Completed("updateImport") /\ PreFound /\ PreLineFound /\ R.result = "ok"
  /\ R.body.notes = "n1" /\ R.body.productId = "p2"
  /\ \A f \in AmountKeys : R.body[f] = Undef
  /\ R.pre.imports[R.importId].notes = NoText
  /\ imports[R.importId].notes = "n1"
  /\ imports[R.importId].productId = "p1"
  /\ Cardinality(LinesOf(R.declId)) = 2

\* ----- C30: the next deadline of the dashboard -----
\* C30: the nextDeadline of the dashboard is strictly later than the current
\* date and is the deadline that calculateDeadline gives to some reporting
\* period (May 31, August 31, November 30 or February 28).
C30_NextDeadline ==
  Completed("dashboard") =>
    /\ Later(R.nextDeadline, R.now)
    /\ \E year \in (R.now.y - 1)..(R.now.y + 1), quarter \in 1..4 :
         calculateDeadline(year, quarter) = R.nextDeadline

====
